---- MODULE Spec2Model ----
(***************************************************************************)
(* Model of src/src/functions.py: the response normalizer                 *)
(* handle_api_response and the fifteen call_* endpoint invokers.          *)
(*                                                                         *)
(* Python values (JSON values, None, strings, numbers) are tagged         *)
(* records [t |-> tag, v |-> payload]; a dict is the sequence of its      *)
(* <<key, value>> pairs in insertion order, as Python keeps it.           *)
(***************************************************************************)
EXTENDS Integers, Sequences, FiniteSets, TLC

VARIABLES pc, call, request, nRequests, transport, response, nHandled, outcome

vars == <<pc, call, request, nRequests, transport, response, nHandled, outcome>>

(* ------------------------------------------------------------------ *)
(* Python / JSON values                                                 *)
(* ------------------------------------------------------------------ *)

PyNone == [t |-> "null"]

JStr(s) == [t |-> "str", v |-> s]

JNum(n) == [t |-> "num", v |-> n]

JBool(b) == [t |-> "bool", v |-> b]

JList(seq) == [t |-> "list", v |-> seq]

JDict(pairs) == [t |-> "dict", v |-> pairs]

\* A field that a generated body does not carry at all (never a Python value).
Absent == [t |-> "absent"]

IsDict(x) == x.t = "dict"

IsList(x) == x.t = "list"

IsNone(x) == x.t = "null"

\* Python ==, restricted to the value kinds of the model (tags first, so that
\* payloads of different kinds are never compared).
PyEq(a, b) == a.t = b.t /\ (a.t = "null" \/ a.v = b.v)

\* k in d
DictHas(d, k) == \E i \in 1..Len(d.v) : d.v[i][1] = k

\* d[k], for a key that is there
DictAt(d, k) == d.v[CHOOSE i \in 1..Len(d.v) : d.v[i][1] = k][2]

\* d.get(k, default)
DictGet(d, k, default) == IF DictHas(d, k) THEN DictAt(d, k) ELSE default

\* sep.join(strs)
RECURSIVE StrJoin(_, _)
StrJoin(strs, sep) ==
  IF Len(strs) = 0 THEN ""
  ELSE IF Len(strs) = 1 THEN strs[1]
  ELSE strs[1] \o sep \o StrJoin(Tail(strs), sep)

\* s[i], one character
Char(s, i) == SubSeq(s, i, i)

\* c in s, for a character c
HasChar(s, c) == \E i \in 1..Len(s) : Char(s, i) = c

\* repr of a str: double quotes when the string holds ' and no ", single quotes
\* otherwise; the backslash, the quote in use and control characters escaped.
\* (Characters outside printable ASCII other than \t \n \r \f, which repr writes
\* as \xNN or keeps, are not values of the model.)
ReprStr(s) ==
  LET q == IF HasChar(s, "'") /\ ~HasChar(s, "\"") THEN "\"" ELSE "'"
      Esc(c) == CASE c = "\\" -> "\\\\"
                  [] c = "\n" -> "\\n"
                  [] c = "\r" -> "\\r"
                  [] c = "\t" -> "\\t"
                  [] c = "\f" -> "\\x0c"
                  [] c = q    -> "\\" \o q
                  [] OTHER    -> c
  IN q \o StrJoin([i \in 1..Len(s) |-> Esc(Char(s, i))], "") \o q

\* repr(x)  (int, not float: the model has no float values)
RECURSIVE PyRepr(_)
PyRepr(x) ==
  CASE x.t = "null" -> "None"
    [] x.t = "bool" -> (IF x.v THEN "True" ELSE "False")
    [] x.t = "num"  -> ToString(x.v)
    [] x.t = "str"  -> ReprStr(x.v)
    [] x.t = "list" ->
         "[" \o StrJoin([i \in 1..Len(x.v) |-> PyRepr(x.v[i])], ", ") \o "]"
    [] x.t = "dict" ->
         "{" \o StrJoin([i \in 1..Len(x.v) |->
                  ReprStr(x.v[i][1]) \o ": " \o PyRepr(x.v[i][2])], ", ") \o "}"
    [] x.t = "Response" -> "<Response [" \o ToString(x.v.status_code) \o "]>"

\* str(x), also what an f-string substitutes for {x}
PyStr(x) == IF x.t = "str" THEN x.v ELSE PyRepr(x)

\* A JSON string literal: the quote, the backslash and control characters
\* escaped, so that response.json() gives the string back.
JsonStr(s) ==
  LET Esc(c) == CASE c = "\"" -> "\\\""
                  [] c = "\\" -> "\\\\"
                  [] c = "\n" -> "\\n"
                  [] c = "\r" -> "\\r"
                  [] c = "\t" -> "\\t"
                  [] c = "\f" -> "\\f"
                  [] OTHER    -> c
  IN "\"" \o StrJoin([i \in 1..Len(s) |-> Esc(Char(s, i))], "") \o "\""

\* The body text of a decodable response: the JSON encoding of its value.
RECURSIVE JsonDumps(_)
JsonDumps(x) ==
  CASE x.t = "null" -> "null"
    [] x.t = "bool" -> (IF x.v THEN "true" ELSE "false")
    [] x.t = "num"  -> ToString(x.v)
    [] x.t = "str"  -> JsonStr(x.v)
    [] x.t = "list" ->
         "[" \o StrJoin([i \in 1..Len(x.v) |-> JsonDumps(x.v[i])], ", ") \o "]"
    [] x.t = "dict" ->
         "{" \o StrJoin([i \in 1..Len(x.v) |->
                  JsonStr(x.v[i][1]) \o ": " \o JsonDumps(x.v[i][2])], ", ") \o "}"

(* ------------------------------------------------------------------ *)
(* Outcomes of a call: a returned value or a raised exception           *)
(* ------------------------------------------------------------------ *)

NoOutcome ==
  [kind |-> "none", exc |-> "", value |-> PyNone, message |-> PyNone,
   status_code |-> PyNone, response_data |-> PyNone]

Return(x) ==
  [kind |-> "return", exc |-> "", value |-> x, message |-> PyNone,
   status_code |-> PyNone, response_data |-> PyNone]

\* raise APIClientError(message, status_code=..., response_data=...)
APIClientError(message, status_code, response_data) ==
  [kind |-> "raise", exc |-> "APIClientError", value |-> PyNone,
   message |-> message, status_code |-> status_code,
   response_data |-> response_data]

\* Any other exception that leaves the function.
RaiseOther(exc, text) ==
  [kind |-> "raise", exc |-> exc, value |-> PyNone, message |-> JStr(text),
   status_code |-> PyNone, response_data |-> PyNone]

(* ------------------------------------------------------------------ *)
(* requests.Response, as far as handle_api_response reads it            *)
(* ------------------------------------------------------------------ *)

\* A raw response: status line, url, body text, and the value response.json()
\* yields when the text is decodable.
RawResponse(status_code, reason, url, text, decodable, data) ==
  [status_code |-> status_code, reason |-> reason, url |-> url, text |-> text,
   decodable |-> decodable, data |-> data]

NoResponse == RawResponse(0, "", "", "", FALSE, PyNone)

\* The Response object as a Python value (what http_err.response is).
ResponseObject(resp) == [t |-> "Response", v |-> resp]

\* response.raise_for_status() raises HTTPError exactly for 4xx and 5xx.
IsHTTPError(resp) == resp.status_code >= 400 /\ resp.status_code < 600

\* str(http_err): the description raise_for_status() builds.
HTTPErrorStr(resp) ==
  ToString(resp.status_code)
    \o (IF resp.status_code < 500 THEN " Client Error: " ELSE " Server Error: ")
    \o resp.reason \o " for url: " \o resp.url

(* ------------------------------------------------------------------ *)
(* handle_api_response: the 2xx side                                    *)
(* ------------------------------------------------------------------ *)

\* Mutant: an undecodable 2xx body is handed back as text.
DecodeFailure_ReturnsText(resp) == Return(JStr(resp.text))

\* except json.JSONDecodeError on a response that passed raise_for_status()
DecodeFailure(resp) ==
  APIClientError(
    JStr("Failed to decode JSON response from successful HTTP call: " \o resp.text),
    JNum(resp.status_code), PyNone)

\* Mutant: the error is raised without the HTTP status code.
StatusError_NoStatusCode(resp, data) ==
  APIClientError(
    DictGet(data, "error_message",
      JStr("Unknown API error: 'status' is 'error' but 'error_message' is missing.")),
    PyNone, data)

\* if api_status == "error"
StatusError(resp, data) ==
  APIClientError(
    DictGet(data, "error_message",
      JStr("Unknown API error: 'status' is 'error' but 'error_message' is missing.")),
    JNum(resp.status_code), data)

\* Mutant: a success body that carries error_message is raised as an error.
StatusSuccess_ErrorMessageWins(resp, data) ==
  IF DictHas(data, "error_message")
  THEN APIClientError(DictAt(data, "error_message"), JNum(resp.status_code), data)
  ELSE Return(data)

\* elif api_status == "success"
StatusSuccess(resp, data) == Return(data)

\* Mutant: the legacy {"success": false} pattern is raised as an error.
StatusNone_LegacyCheck(resp, data) ==
  IF DictHas(data, "error_message")
  THEN APIClientError(DictAt(data, "error_message"), JNum(resp.status_code), data)
  ELSE IF PyEq(DictGet(data, "success", PyNone), JBool(FALSE))
  THEN APIClientError(DictGet(data, "error", JStr("Unknown API error with success=False")),
                      JNum(resp.status_code), data)
  ELSE Return(data)

\* elif api_status is None
StatusNone(resp, data) ==
  IF DictHas(data, "error_message")
  THEN APIClientError(DictAt(data, "error_message"), JNum(resp.status_code), data)
  ELSE Return(data)

\* else: any other value of the status field
StatusUnexpected(resp, data) ==
  APIClientError(
    JStr("API response has an unexpected 'status' field value: '"
           \o PyStr(DictGet(data, "status", PyNone)) \o "'"),
    JNum(resp.status_code), data)

\* The body of the try block after raise_for_status() passed.
HandleSuccessStatus(resp) ==
  IF ~resp.decodable THEN DecodeFailure(resp)
  ELSE LET data == resp.data IN
    IF IsDict(data)
    THEN LET api_status == DictGet(data, "status", PyNone) IN
      IF PyEq(api_status, JStr("error")) THEN StatusError(resp, data)
      ELSE IF PyEq(api_status, JStr("success")) THEN StatusSuccess(resp, data)
      ELSE IF IsNone(api_status) THEN StatusNone(resp, data)
      ELSE StatusUnexpected(resp, data)
    ELSE Return(data)

(* ------------------------------------------------------------------ *)
(* handle_api_response: the except HTTPError side                       *)
(* ------------------------------------------------------------------ *)

\* isinstance(message, list) and len(message) > 0 and isinstance(message[0], dict)
\*   and 'loc' in message[0] and 'msg' in message[0]
IsValidationErrorList(message) ==
  /\ IsList(message)
  /\ Len(message.v) > 0
  /\ IsDict(message.v[1])
  /\ DictHas(message.v[1], "loc")
  /\ DictHas(message.v[1], "msg")

UnknownField == JList(<<JStr("unknown_field")>>)

\* The exception that evaluating  err.get('loc', ['unknown_field'])[-1]  raises
\* for one element of the list, "" when it raises none.
ItemException(err) ==
  IF ~IsDict(err) THEN "AttributeError"
  ELSE LET loc == DictGet(err, "loc", UnknownField) IN
    CASE loc.t = "list" -> (IF Len(loc.v) = 0 THEN "IndexError" ELSE "")
      [] loc.t = "str"  -> (IF Len(loc.v) = 0 THEN "IndexError" ELSE "")
      [] loc.t = "dict" -> "KeyError"
      [] OTHER          -> "TypeError"

\* f"{err.get('loc', ['unknown_field'])[-1]}: {err.get('msg', '')}"
ItemText(err) ==
  LET loc  == DictGet(err, "loc", UnknownField)
      last == IF loc.t = "list" THEN PyStr(loc.v[Len(loc.v)])
              ELSE SubSeq(loc.v, Len(loc.v), Len(loc.v))
  IN last \o ": " \o PyStr(DictGet(err, "msg", JStr("")))

\* The list comprehension, element by element: the exception of the first
\* element that raises (exc), else the formatted elements (strs).
RECURSIVE FormatItems(_)
FormatItems(items) ==
  IF Len(items) = 0 THEN [exc |-> "", strs |-> << >>]
  ELSE LET e == ItemException(items[1]) IN
    IF e # "" THEN [exc |-> e, strs |-> << >>]
    ELSE LET rest == FormatItems(Tail(items)) IN
      IF rest.exc # "" THEN rest
      ELSE [exc |-> "", strs |-> <<ItemText(items[1])>> \o rest.strs]

\* The message computed from a dict body: [exc, message]; exc names the
\* exception that escapes the computation, "" when none does.
DictErrorMessage(err_data) ==
  LET m1 == DictGet(err_data, "error_message", PyNone) IN
  IF ~IsNone(m1) THEN [exc |-> "", message |-> m1]
  ELSE LET m2 == DictGet(err_data, "detail", PyNone) IN
    IF IsValidationErrorList(m2)
    THEN LET f == FormatItems(m2.v) IN
      IF f.exc # "" THEN [exc |-> f.exc, message |-> PyNone]
      ELSE [exc |-> "", message |-> JStr(StrJoin(f.strs, "; "))]
    ELSE IF IsNone(m2) THEN [exc |-> "", message |-> JStr(PyStr(err_data))]
    ELSE [exc |-> "", message |-> m2]

\* Mutant: no fallback to the HTTP error description for an empty body.
NonJsonErrorMessage_NoFallback(resp) == JStr("HTTP error: " \o resp.text)

\* except json.JSONDecodeError inside the HTTPError handler
NonJsonErrorMessage(resp) ==
  IF resp.text # "" THEN JStr("HTTP error: " \o resp.text)
  ELSE JStr(HTTPErrorStr(resp))

\* The message the HTTPError handler computes: [exc, message].
HTTPErrorMessage(resp) ==
  IF ~resp.decodable THEN [exc |-> "", message |-> NonJsonErrorMessage(resp)]
  ELSE IF IsDict(resp.data) THEN DictErrorMessage(resp.data)
  ELSE [exc |-> "", message |-> JStr(PyStr(resp.data))]

\* getattr(http_err, 'response', {})
ErrorResponseData(resp) == ResponseObject(resp)

\* except requests.exceptions.HTTPError as http_err
HandleHTTPError(resp) ==
  LET m == HTTPErrorMessage(resp) IN
  IF m.exc # "" THEN RaiseOther(m.exc, "")
  ELSE APIClientError(m.message, JNum(resp.status_code), ErrorResponseData(resp))

handle_api_response(resp) ==
  IF IsHTTPError(resp) THEN HandleHTTPError(resp) ELSE HandleSuccessStatus(resp)

(* ------------------------------------------------------------------ *)
(* The responses a server can send (bounded)                            *)
(* ------------------------------------------------------------------ *)

\* Longest `detail` list generated.
MaxDetailLen == 2

BASE_URL == "http://127.0.0.1:8084"

\* <<status code, reason phrase>> of the responses handle_api_response is given
\* (a 302 that reaches it carries no Location: requests has nothing to follow).
StatusLines ==
  { <<200, "OK">>, <<201, "Created">>, <<302, "Found">>, <<404, "Not Found">>,
    <<422, "Unprocessable Entity">>, <<500, "Internal Server Error">> }

\* Body texts that are not JSON.
RawTexts == { "", "Internal Server Error", "<html>oops</html>" }

\* Elements of a `detail` list: a FastAPI validation record, a record whose
\* loc is empty, a record without loc, and an element that is no mapping.
DetailItems ==
  { JDict(<< <<"loc", JList(<<JStr("body"), JStr("folder_path")>>)>>,
             <<"msg", JStr("field required")>> >>),
    JDict(<< <<"loc", JList(<< >>)>>, <<"msg", JStr("bad value")>> >>),
    JDict(<< <<"msg", JStr("no location")>> >>),
    JStr("oops") }

RECURSIVE SeqsUpTo(_, _)
SeqsUpTo(S, n) ==
  IF n = 0 THEN { << >> }
  ELSE LET shorter == SeqsUpTo(S, n - 1) IN
    shorter \cup { Append(q, x) : q \in { r \in shorter : Len(r) = n - 1 }, x \in S }

StatusValues ==
  { Absent, JStr("success"), JStr("error"), JStr("pending"), PyNone, JNum(1),
    JBool(TRUE) }

ErrorMessageValues == { Absent, JStr("X"), PyNone, JNum(5) }

DetailValues ==
  { Absent, JStr("Not authenticated"), PyNone, JNum(7),
    JDict(<< <<"reason", JStr("quota")>> >>) }
    \cup { JList(q) : q \in SeqsUpTo(DetailItems, MaxDetailLen) }

\* The legacy convention {"success": false, "error": ...} of the older endpoints.
LegacyValues == { Absent, JBool(FALSE) }

Field(k, x) == IF x = Absent THEN << >> ELSE << <<k, x>> >>

MappingBody(status, error_message, detail, success) ==
  JDict(Field("success", success)
          \o (IF success = Absent THEN << >> ELSE << <<"error", JStr("can't read C:\\keys")>> >>)
          \o Field("status", status)
          \o Field("error_message", error_message)
          \o Field("detail", detail))

MappingBodies ==
  { MappingBody(st, em, de, su) :
      st \in StatusValues, em \in ErrorMessageValues, de \in DetailValues,
      su \in LegacyValues }

OtherBodies ==
  { JList(<<JNum(1), JNum(2), JNum(3)>>), JList(<< >>), JStr("ok"), JNum(7),
    PyNone, JBool(TRUE), JStr("can't"),
    JList(<<JStr("say \"hi\""), JStr("it's \"x\""), JStr("a\nb")>>) }

ResponsesFor(url, bodies) ==
  { RawResponse(sl[1], sl[2], url, JsonDumps(b), TRUE, b) :
      sl \in StatusLines, b \in bodies }
    \cup { RawResponse(sl[1], sl[2], url, txt, FALSE, PyNone) :
             sl \in StatusLines, txt \in RawTexts }

\* Every response of the model, as the answer to GET /creds.
Responses == ResponsesFor(BASE_URL \o "/creds", MappingBodies \cup OtherBodies)

(* ------------------------------------------------------------------ *)
(* The normalizer alone: a response arrives, handle_api_response runs   *)
(* ------------------------------------------------------------------ *)

NoCall == [name |-> "", args |-> JDict(<< >>)]

NoRequest == [method |-> "", url |-> "", params |-> PyNone, json |-> PyNone]

NormInit ==
  /\ pc = "received"
  /\ call = NoCall
  /\ request = NoRequest
  /\ nRequests = 0
  /\ transport = "response"
  /\ response \in Responses
  /\ nHandled = 0
  /\ outcome = NoOutcome

Normalize ==
  /\ pc = "received"
  /\ outcome' = handle_api_response(response)
  /\ nHandled' = nHandled + 1
  /\ pc' = "done"
  /\ UNCHANGED <<call, request, nRequests, transport, response>>

NormNext == Normalize

NormSpec == NormInit /\ [][NormNext]_vars

(* ------------------------------------------------------------------ *)
(* The endpoint invokers                                                *)
(* ------------------------------------------------------------------ *)

\* Values a caller passes for an argument declared str.
StrArgs == { JStr(""), JStr("/tmp/my app") }

\* Values a caller passes for an argument that may be left out.
OptArgs == { PyNone, JStr(""), JStr("/tmp/my app") }

\* Truthiness of an argument value:  if app_name:
Truthy(x) ==
  CASE x.t = "null" -> FALSE
    [] x.t = "str"  -> x.v # ""
    [] x.t = "bool" -> x.v
    [] x.t = "num"  -> x.v # 0
    [] OTHER        -> Len(x.v) > 0

\* requests.get(endpoint, params=params) / requests.post(endpoint, json=payload):
\* the first HTTP request of the invocation goes out.
Issue(name, args, method, path, params, json) ==
  /\ pc = "idle"
  /\ call' = [name |-> name, args |-> args]
  /\ request' = [method |-> method, url |-> BASE_URL \o path,
                 params |-> params, json |-> json]
  /\ nRequests' = nRequests + 1
  /\ pc' = "sent"
  /\ UNCHANGED <<transport, response, nHandled, outcome>>

call_save_keys ==
  \E public_key, private_key \in StrArgs :
    Issue("call_save_keys", JDict(<< <<"public_key", public_key>>, <<"private_key", private_key>> >>), "POST", "/api/save-keys", PyNone, JDict(<< <<"public_key", public_key>>, <<"private_key", private_key>> >>))

call_get_keys ==
  Issue("call_get_keys", JDict(<< >>), "GET", "/api/get-keys", PyNone, PyNone)

call_get_creds ==
  Issue("call_get_creds", JDict(<< >>), "GET", "/creds", PyNone, PyNone)

call_dockerfile_gen ==
  \E app_type, python_version, work_dir, entrypoint, folder_path \in StrArgs :
    Issue("call_dockerfile_gen", JDict(<< <<"app_type", app_type>>, <<"python_version", python_version>>, <<"work_dir", work_dir>>, <<"entrypoint", entrypoint>>, <<"folder_path", folder_path>> >>), "GET", "/dockerfile-gen", JDict(<< <<"app_type", app_type>>, <<"python_version", python_version>>, <<"work_dir", work_dir>>, <<"entrypoint", entrypoint>>, <<"folder_path", folder_path>> >>), PyNone)

call_infra ==
  \E work_dir, instance_size \in StrArgs :
    Issue("call_infra", JDict(<< <<"work_dir", work_dir>>, <<"instance_size", instance_size>> >>), "GET", "/infra", JDict(<< <<"work_dir", work_dir>>, <<"instance_size", instance_size>> >>), PyNone)

call_get_environments ==
  \E folder_path \in StrArgs :
    Issue("call_get_environments", JDict(<< <<"folder_path", folder_path>> >>), "GET", "/get-environments", JDict(<< <<"folder_path", folder_path>> >>), PyNone)

call_github_webhook_setup ==
  \E folder_path \in StrArgs :
    Issue("call_github_webhook_setup", JDict(<< <<"folder_path", folder_path>> >>), "GET", "/github-webhook-setup", JDict(<< <<"folder_path", folder_path>> >>), PyNone)

call_acube_cicd_plan ==
  \E user_request, service_type \in StrArgs :
    Issue("call_acube_cicd_plan", JDict(<< <<"user_request", user_request>>, <<"service_type", service_type>> >>), "GET", "/acube/cicdplan", JDict(<< <<"user_request", user_request>>, <<"service_type", service_type>> >>), PyNone)

call_acube_dynamic_question ==
  \E tool_name \in StrArgs :
    Issue("call_acube_dynamic_question", JDict(<< <<"tool_name", tool_name>> >>), "GET", "/acube/dynamicquestion", JDict(<< <<"tool_name", tool_name>> >>), PyNone)

call_acube_answer_validator ==
  \E tool_name, answer \in StrArgs :
    Issue("call_acube_answer_validator", JDict(<< <<"tool_name", tool_name>>, <<"answer", answer>> >>), "GET", "/acube/answervalidator", JDict(<< <<"tool_name", tool_name>>, <<"answer", answer>> >>), PyNone)

call_dashboard_file_data ==
  Issue("call_dashboard_file_data", JDict(<< >>), "GET", "/dashboard-file-data", PyNone, PyNone)

call_edit_file ==
  \E filename, original_code, prompt \in StrArgs :
    Issue("call_edit_file", JDict(<< <<"filename", filename>>, <<"original_code", original_code>>, <<"prompt", prompt>> >>), "POST", "/edit-file", PyNone, JDict(<< <<"filename", filename>>, <<"original_code", original_code>>, <<"prompt", prompt>> >>))

call_get_instance_ip ==
  \E work_dir \in StrArgs :
    Issue("call_get_instance_ip", JDict(<< <<"work_dir", work_dir>> >>), "GET", "/get-instance-ip", JDict(<< <<"work_dir", work_dir>> >>), PyNone)

\* payload = {}; each field is added when its argument is not None
AnalyzerPayload(folder_path, environment_path) ==
  JDict((IF ~IsNone(folder_path) THEN << <<"folder_path", folder_path>> >> ELSE << >>)
     \o (IF ~IsNone(environment_path)
         THEN << <<"environment_path", environment_path>> >> ELSE << >>))

call_analyzer ==
  \E folder_path, environment_path \in OptArgs :
    Issue("call_analyzer",
          JDict(<< <<"folder_path", folder_path>>,
                   <<"environment_path", environment_path>> >>),
          "POST", "/analyzer", PyNone,
          AnalyzerPayload(folder_path, environment_path))

\* params = {"folder_path": folder_path}; each optional one is added when truthy
JenkinsfileParams(folder_path, app_name, port, version) ==
  JDict(<< <<"folder_path", folder_path>> >>
     \o (IF Truthy(app_name) THEN << <<"app_name", app_name>> >> ELSE << >>)
     \o (IF Truthy(port) THEN << <<"port", port>> >> ELSE << >>)
     \o (IF Truthy(version) THEN << <<"version", version>> >> ELSE << >>))

call_jenkinsfile_gen ==
  \E folder_path \in StrArgs, app_name, port, version \in OptArgs :
    Issue("call_jenkinsfile_gen",
          JDict(<< <<"folder_path", folder_path>>, <<"app_name", app_name>>,
                   <<"port", port>>, <<"version", version>> >>),
          "GET", "/jenkinsfile-gen",
          JenkinsfileParams(folder_path, app_name, port, version), PyNone)

(* ------------------------------------------------------------------ *)
(* The transport and the rest of the invocation                         *)
(* ------------------------------------------------------------------ *)

\* urllib.parse.quote_plus, which requests applies to every key and value of
\* params: letters, digits and _ . - ~ stay, a space becomes +, any other
\* character its %XX code (printable ASCII but the backquote, and \t \n \r \f:
\* the characters a string of the model can hold).
QuotePlus(s) ==
  LET Unreserved ==
        "abcdefghijklmnopqrstuvwxyzABCDEFGHIJKLMNOPQRSTUVWXYZ0123456789_.-~"
      Esc(c) ==
        IF HasChar(Unreserved, c) THEN c
        ELSE CASE c = " " -> "+"    [] c = "!" -> "%21"  [] c = "\"" -> "%22"
               [] c = "#" -> "%23"  [] c = "$" -> "%24"  [] c = "%" -> "%25"
               [] c = "&" -> "%26"  [] c = "'" -> "%27"  [] c = "(" -> "%28"
               [] c = ")" -> "%29"  [] c = "*" -> "%2A"  [] c = "+" -> "%2B"
               [] c = "," -> "%2C"  [] c = "/" -> "%2F"  [] c = ":" -> "%3A"
               [] c = ";" -> "%3B"  [] c = "<" -> "%3C"  [] c = "=" -> "%3D"
               [] c = ">" -> "%3E"  [] c = "?" -> "%3F"  [] c = "@" -> "%40"
               [] c = "[" -> "%5B"  [] c = "\\" -> "%5C" [] c = "]" -> "%5D"
               [] c = "^" -> "%5E"  [] c = "{" -> "%7B"  [] c = "|" -> "%7C"
               [] c = "}" -> "%7D"  [] c = "\t" -> "%09" [] c = "\n" -> "%0A"
               [] c = "\r" -> "%0D" [] c = "\f" -> "%0C"
  IN StrJoin([i \in 1..Len(s) |-> Esc(Char(s, i))], "")

\* The query string requests builds from params (None values are left out).
QueryString(params) ==
  IF IsNone(params) THEN ""
  ELSE LET kept == SelectSeq(params.v, LAMBDA kv : ~IsNone(kv[2])) IN
    IF Len(kept) = 0 THEN ""
    ELSE "?" \o StrJoin([i \in 1..Len(kept) |->
                  QuotePlus(kept[i][1]) \o "=" \o QuotePlus(PyStr(kept[i][2]))], "&")

\* response.url
PreparedUrl(req) == req.url \o QueryString(req.params)

\* Bodies the server answers an invocation with.
WireBodies ==
  { MappingBody(JStr("success"), Absent, Absent, Absent),
    MappingBody(JStr("error"), JStr("X"), Absent, Absent),
    MappingBody(Absent, Absent, Absent, JBool(FALSE)),
    MappingBody(Absent, JStr("X"), Absent, Absent),
    MappingBody(Absent, Absent, JStr("Not authenticated"), Absent),
    JList(<<JNum(1), JNum(2), JNum(3)>>) }

\* Exceptions requests.get / requests.post raise when no response arrives.
NetworkErrors == { "ConnectionError", "ConnectTimeout", "ReadTimeout" }

\* Redirects requests follows before it gives up: the default of requests, which
\* no call_* overrides (none passes a session or max_redirects).
DEFAULT_REDIRECT_LIMIT == 30

\* Status codes of an answer with a Location header, which requests follows
\* (allow_redirects is left at its default in every call_*).
RedirectCodes == { 301, 302, 303, 307, 308 }

\* Where a Location header points.
RedirectTargets == { BASE_URL \o "/other" }

\* The request requests sends after a redirect: to the target; 303 and 302 turn
\* the method into GET, 301 turns POST into GET; the body is kept only by 307
\* and 308.
RedirectedRequest(req, code, target) ==
  [method |-> IF code \in {302, 303} \/ (code = 301 /\ req.method = "POST")
              THEN "GET" ELSE req.method,
   url    |-> target,
   params |-> PyNone,
   json   |-> IF code \in {307, 308} THEN req.json ELSE PyNone]

\* The server answers with a redirect and requests sends the next request,
\* inside the same requests.get / requests.post call.
FollowRedirect ==
  /\ pc = "sent"
  /\ nRequests <= DEFAULT_REDIRECT_LIMIT
  /\ \E code \in RedirectCodes, target \in RedirectTargets :
       request' = RedirectedRequest(request, code, target)
  /\ nRequests' = nRequests + 1
  /\ UNCHANGED <<pc, call, transport, response, nHandled, outcome>>

\* One redirect more than requests follows: requests.get / requests.post raises
\* TooManyRedirects, which leaves the invoker like any other requests exception.
TooManyRedirects ==
  /\ pc = "sent"
  /\ nRequests = DEFAULT_REDIRECT_LIMIT + 1
  /\ outcome' = RaiseOther("TooManyRedirects",
                           "Exceeded " \o ToString(DEFAULT_REDIRECT_LIMIT) \o " redirects.")
  /\ transport' = "too_many_redirects"
  /\ pc' = "done"
  /\ UNCHANGED <<call, request, nRequests, response, nHandled>>

\* The final response arrives and the invoker returns
\* handle_api_response(response).
Receive ==
  /\ pc = "sent"
  /\ \E resp \in ResponsesFor(PreparedUrl(request), WireBodies) :
       /\ response' = resp
       /\ outcome' = handle_api_response(resp)
  /\ transport' = "response"
  /\ nHandled' = nHandled + 1
  /\ pc' = "done"
  /\ UNCHANGED <<call, request, nRequests>>

\* requests.get / requests.post raises: the exception leaves the invoker from
\* the line of the request, before handle_api_response is entered.
NetworkFailure ==
  /\ pc = "sent"
  /\ \E e \in NetworkErrors : outcome' = RaiseOther(e, "request failed")
  /\ transport' = "network_error"
  /\ pc' = "done"
  /\ UNCHANGED <<call, request, nRequests, response, nHandled>>

\* The caller has the outcome; the next invocation starts from scratch.
Finish ==
  /\ pc = "done"
  /\ pc' = "idle"
  /\ call' = NoCall
  /\ request' = NoRequest
  /\ nRequests' = 0
  /\ transport' = ""
  /\ response' = NoResponse
  /\ nHandled' = 0
  /\ outcome' = NoOutcome

Init ==
  /\ pc = "idle"
  /\ call = NoCall
  /\ request = NoRequest
  /\ nRequests = 0
  /\ transport = ""
  /\ response = NoResponse
  /\ nHandled = 0
  /\ outcome = NoOutcome

Next ==
  \/ call_save_keys
  \/ call_get_keys
  \/ call_analyzer
  \/ call_get_creds
  \/ call_dockerfile_gen
  \/ call_jenkinsfile_gen
  \/ call_infra
  \/ call_get_environments
  \/ call_github_webhook_setup
  \/ call_acube_cicd_plan
  \/ call_acube_dynamic_question
  \/ call_acube_answer_validator
  \/ call_dashboard_file_data
  \/ call_edit_file
  \/ call_get_instance_ip
  \/ FollowRedirect
  \/ TooManyRedirects
  \/ Receive
  \/ NetworkFailure
  \/ Finish

Spec == Init /\ [][Next]_vars

(* ------------------------------------------------------------------ *)
(* Properties                                                           *)
(* ------------------------------------------------------------------ *)

Is2xx(resp) == resp.status_code >= 200 /\ resp.status_code < 300

Is4xx5xx(resp) == resp.status_code >= 400 /\ resp.status_code < 600

\* handle_api_response has run on `response` and `outcome` is its result.
Normalized == pc = "done" /\ nHandled = 1

IsSuccess(o) == o.kind = "return"

IsFailure(o) == o.kind = "raise" /\ o.exc = "APIClientError"

\* A 2xx response whose body decodes to a mapping.
Mapping2xx == Normalized /\ Is2xx(response) /\ response.decodable /\ IsDict(response.data)

\* A 4xx/5xx response whose body decodes to a mapping.
MappingError ==
  Normalized /\ Is4xx5xx(response) /\ response.decodable /\ IsDict(response.data)

StatusIs(x) ==
  DictHas(response.data, "status") /\ DictAt(response.data, "status") = x

\* C1: a 2xx response whose body is a mapping with status "success" yields
\* Success carrying the whole mapping unchanged, whatever else the mapping holds.
C1_SuccessBodyUnchanged ==
  (Mapping2xx /\ StatusIs(JStr("success"))) => outcome = Return(response.data)

\* C1 witness: a status "success" body that also carries error_message and the
\* legacy fields was returned as it is.
C1_Witness ==
  /\ Mapping2xx /\ StatusIs(JStr("success"))
  /\ DictHas(response.data, "error_message")
  /\ DictHas(response.data, "success")
  /\ IsSuccess(outcome) /\ outcome.value = response.data

GenericStatusErrorMessage ==
  "Unknown API error: 'status' is 'error' but 'error_message' is missing."

\* C2: a 2xx response whose body is a mapping with status "error" yields a
\* Failure whose message is the error_message field when present and the generic
\* message otherwise, with the HTTP status code and the body as raw payload.
C2_StatusErrorIsFailure ==
  (Mapping2xx /\ StatusIs(JStr("error"))) =>
    /\ IsFailure(outcome)
    /\ outcome.message =
         (IF DictHas(response.data, "error_message")
          THEN DictAt(response.data, "error_message")
          ELSE JStr(GenericStatusErrorMessage))
    /\ outcome.status_code = JNum(response.status_code)
    /\ outcome.response_data = response.data

\* C2 witness: status "error" without error_message on a 201 gave the generic
\* message.
C2_Witness ==
  /\ Mapping2xx /\ StatusIs(JStr("error"))
  /\ ~DictHas(response.data, "error_message")
  /\ response.status_code = 201
  /\ IsFailure(outcome)
  /\ outcome.message = JStr(GenericStatusErrorMessage)

\* Whether string s starts with string p.
StartsWith(s, p) == Len(s) >= Len(p) /\ SubSeq(s, 1, Len(p)) = p

\* C3: a 2xx response whose body is not JSON yields a Failure with the HTTP
\* status code and a message saying that JSON decoding failed, never Success.
C3_UndecodableIsFailure ==
  (Normalized /\ Is2xx(response) /\ ~response.decodable) =>
    /\ IsFailure(outcome)
    /\ outcome.status_code = JNum(response.status_code)
    /\ outcome.message.t = "str"
    /\ StartsWith(outcome.message.v, "Failed to decode JSON response")

\* C3 witness: a 200 with an HTML body was turned into a Failure.
C3_Witness ==
  /\ Normalized /\ response.status_code = 200 /\ ~response.decodable
  /\ response.text = "<html>oops</html>"
  /\ IsFailure(outcome)

\* A 4xx/5xx response whose body is not JSON.
NonJsonError == Normalized /\ Is4xx5xx(response) /\ ~response.decodable

\* C4 as stated: a 4xx/5xx response with a non-JSON body yields a Failure whose
\* message is exactly the raw body text when it is non-empty, else the generic
\* HTTP error description; status_code is the HTTP status code.
C4_MessageIsRawText ==
  NonJsonError =>
    /\ IsFailure(outcome)
    /\ outcome.status_code = JNum(response.status_code)
    /\ outcome.message =
         (IF response.text # "" THEN JStr(response.text)
          ELSE JStr(HTTPErrorStr(response)))

\* C4 amended: a 4xx/5xx response with a non-JSON body yields a Failure whose
\* message is "HTTP error: " followed by the raw body text when the text is
\* non-empty, else the generic HTTP error description; status_code is the HTTP
\* status code.
C4_MessageIsPrefixedRawText ==
  NonJsonError =>
    /\ IsFailure(outcome)
    /\ outcome.status_code = JNum(response.status_code)
    /\ outcome.message =
         (IF response.text # "" THEN JStr("HTTP error: " \o response.text)
          ELSE JStr(HTTPErrorStr(response)))

\* C4 witness: a 500 with the body "Internal Server Error" gave the prefixed
\* message.
C4_Witness ==
  /\ NonJsonError /\ response.status_code = 500
  /\ response.text = "Internal Server Error"
  /\ outcome.message = JStr("HTTP error: Internal Server Error")

\* A sequence of validation records: a non-empty list of mappings that each
\* have loc and msg.
IsValidationRecords(x) ==
  /\ IsList(x) /\ Len(x.v) > 0
  /\ \A i \in 1..Len(x.v) :
       IsDict(x.v[i]) /\ DictHas(x.v[i], "loc") /\ DictHas(x.v[i], "msg")

\* "<last element of loc>: <msg>" ("" for the last element of an empty loc)
RenderRecord(rec) ==
  LET loc == DictAt(rec, "loc") IN
  (IF IsList(loc) /\ Len(loc.v) > 0 THEN PyStr(loc.v[Len(loc.v)]) ELSE "")
    \o ": " \o PyStr(DictAt(rec, "msg"))

\* A field is present: the mapping has it with a value other than null.
Present(d, k) == DictHas(d, k) /\ ~IsNone(DictAt(d, k))

\* The message C5 states for a mapping body.
C5_StatedMessage(d) ==
  IF Present(d, "error_message") THEN DictAt(d, "error_message")
  ELSE IF Present(d, "detail")
  THEN LET detail == DictAt(d, "detail") IN
    IF IsValidationRecords(detail)
    THEN JStr(StrJoin([i \in 1..Len(detail.v) |-> RenderRecord(detail.v[i])], "; "))
    ELSE detail
  ELSE JStr(PyStr(d))

\* C5: a 4xx/5xx response whose body is a mapping yields a Failure with the HTTP
\* status code and the message chosen in the order error_message, detail (a
\* sequence of validation records rendered "<last of loc>: <msg>" joined by
\* "; "), string form of the mapping.
C5_ErrorMessagePriority ==
  MappingError =>
    /\ IsFailure(outcome)
    /\ outcome.status_code = JNum(response.status_code)
    /\ outcome.message = C5_StatedMessage(response.data)

\* C6: every 4xx/5xx response, whatever its body, ends in APIClientError carrying
\* the HTTP status code: no other exception, no returned value.
C6_ErrorStatusAlwaysClientError ==
  (Normalized /\ Is4xx5xx(response)) =>
    /\ IsFailure(outcome)
    /\ outcome.status_code = JNum(response.status_code)

\* C7: a 2xx response whose body is a mapping in which status is present with
\* any value other than "success" or "error" (null included) yields a Failure
\* stating the unexpected value, with the HTTP status code and the body as raw
\* payload, never Success.
C7_UnexpectedStatusIsFailure ==
  (/\ Mapping2xx
   /\ DictHas(response.data, "status")
   /\ DictAt(response.data, "status") \notin {JStr("success"), JStr("error")}) =>
    /\ IsFailure(outcome)
    /\ outcome.message =
         JStr("API response has an unexpected 'status' field value: '"
                \o PyStr(DictAt(response.data, "status")) \o "'")
    /\ outcome.status_code = JNum(response.status_code)
    /\ outcome.response_data = response.data

\* The HTTP request of the invocation failed at the network level: the
\* invocation is over and no response ever arrived.
NetworkFailed == pc = "done" /\ transport = "network_error" /\ nHandled = 0

\* C8: a network-level failure reaches the caller of the invoker as
\* APIClientError with no status code, and as no other exception.
C8_NetworkFailureIsClientError ==
  NetworkFailed => (IsFailure(outcome) /\ outcome.status_code = PyNone)

\* C9: on a 2xx response with a decodable body, a mapping without a status field
\* yields Failure(error_message, HTTP status, body) when error_message is present
\* and Success with the body unchanged when it is absent; a body that is no
\* mapping yields Success with that value.
C9_ImplicitSuccess ==
  (Normalized /\ Is2xx(response) /\ response.decodable) =>
    /\ (IsDict(response.data) /\ ~DictHas(response.data, "status")
          /\ DictHas(response.data, "error_message")) =>
         outcome = APIClientError(DictAt(response.data, "error_message"),
                                  JNum(response.status_code), response.data)
    /\ (IsDict(response.data) /\ ~DictHas(response.data, "status")
          /\ ~DictHas(response.data, "error_message")) =>
         outcome = Return(response.data)
    /\ ~IsDict(response.data) => outcome = Return(response.data)

\* C9 witness: the legacy body {"success": false, "error": ...} on a 200 was
\* returned as Success.
C9_Witness ==
  /\ Mapping2xx /\ response.status_code = 200
  /\ response.data = MappingBody(Absent, Absent, Absent, JBool(FALSE))
  /\ outcome = Return(response.data)

\* An argument that is absent or empty: None or "".
AbsentOrEmpty(x) == IsNone(x) \/ x = JStr("")

\* The arguments of `names` that are absent or empty have no entry in `sent`.
OmitsAbsent(names, sent) ==
  \A a \in names :
    AbsentOrEmpty(DictAt(call.args, a)) => (IsDict(sent) /\ ~DictHas(sent, a))

\* C10: an argument that is None or "" has no entry in the outgoing request:
\* no app_name/port/version query parameter from call_jenkinsfile_gen, no
\* folder_path/environment_path body field from call_analyzer (in the request
\* the invoker builds, the first on the wire).
C10_AbsentArgumentsOmitted ==
  /\ (pc = "sent" /\ nRequests = 1 /\ call.name = "call_jenkinsfile_gen") =>
       OmitsAbsent({"app_name", "port", "version"}, request.params)
  /\ (pc = "sent" /\ nRequests = 1 /\ call.name = "call_analyzer") =>
       OmitsAbsent({"folder_path", "environment_path"}, request.json)

\* C11: the raw payload of a Failure produced from a 4xx/5xx response is the
\* parsed JSON body when the body is decodable and empty (None or {}) otherwise,
\* never any other object.
C11_ErrorPayloadIsParsedBody ==
  (Normalized /\ Is4xx5xx(response) /\ IsFailure(outcome)) =>
    IF response.decodable
    THEN outcome.response_data = response.data
    ELSE outcome.response_data \in {PyNone, JDict(<< >>)}

\* The method and path the interface table lists for each invoker.
InterfaceTable ==
  [n \in {"call_save_keys", "call_get_keys", "call_analyzer", "call_get_creds",
          "call_dockerfile_gen", "call_jenkinsfile_gen", "call_infra",
          "call_get_environments", "call_github_webhook_setup",
          "call_acube_cicd_plan", "call_acube_dynamic_question",
          "call_acube_answer_validator", "call_dashboard_file_data",
          "call_edit_file", "call_get_instance_ip"} |->
     CASE n = "call_save_keys" -> <<"POST", "/api/save-keys">>
       [] n = "call_get_keys" -> <<"GET", "/api/get-keys">>
       [] n = "call_analyzer" -> <<"POST", "/analyzer">>
       [] n = "call_get_creds" -> <<"GET", "/creds">>
       [] n = "call_dockerfile_gen" -> <<"GET", "/dockerfile-gen">>
       [] n = "call_jenkinsfile_gen" -> <<"GET", "/jenkinsfile-gen">>
       [] n = "call_infra" -> <<"GET", "/infra">>
       [] n = "call_get_environments" -> <<"GET", "/get-environments">>
       [] n = "call_github_webhook_setup" -> <<"GET", "/github-webhook-setup">>
       [] n = "call_acube_cicd_plan" -> <<"GET", "/acube/cicdplan">>
       [] n = "call_acube_dynamic_question" -> <<"GET", "/acube/dynamicquestion">>
       [] n = "call_acube_answer_validator" -> <<"GET", "/acube/answervalidator">>
       [] n = "call_dashboard_file_data" -> <<"GET", "/dashboard-file-data">>
       [] n = "call_edit_file" -> <<"POST", "/edit-file">>
       [] n = "call_get_instance_ip" -> <<"GET", "/get-instance-ip">>]

\* An invocation is under way or over.
Invoked == pc \in {"sent", "done"}

\* The request on the wire is the one the interface table lists for the invoker.
RequestAsListed ==
  /\ call.name \in DOMAIN InterfaceTable
  /\ request.method = InterfaceTable[call.name][1]
  /\ request.url = BASE_URL \o InterfaceTable[call.name][2]

\* What does hold of every invocation: its first request is the listed one,
\* further requests go out only to follow redirects (never a retry), and the
\* final response, when one arrives, is normalized exactly once.
OneCallOneNormalization ==
  /\ (pc = "idle") => (nRequests = 0 /\ nHandled = 0)
  /\ Invoked => (nRequests >= 1 /\ nRequests <= DEFAULT_REDIRECT_LIMIT + 1)
  /\ (Invoked /\ nRequests = 1) => RequestAsListed
  /\ (pc = "sent") => (nHandled = 0 /\ outcome = NoOutcome)
  /\ (pc = "done" /\ transport = "response") =>
       (nHandled = 1 /\ outcome = handle_api_response(response))
  /\ (pc = "done" /\ transport # "response") =>
       (nHandled = 0 /\ response = NoResponse)

\* One request per invocation, with the listed method and path against the base
\* address, and the response that arrives is normalized once.
OneRequestOneNormalization ==
  /\ OneCallOneNormalization
  /\ Invoked => (nRequests = 1 /\ RequestAsListed)

\* C12: every invocation of an invoker issues exactly one HTTP request with the
\* method and path of the interface table against the base address, passes the
\* one raw response to handle_api_response exactly once, and ends in exactly one
\* outcome: a returned Success payload or a raised Failure.
C12_OneRequestOneOutcome ==
  /\ OneRequestOneNormalization
  /\ (pc = "done") => (IsSuccess(outcome) \/ IsFailure(outcome))

\* C13: every Failure handle_api_response produces, for any status code and any
\* body, carries a message that is a string, never a raw structured value.
C13_FailureMessageIsString ==
  (Normalized /\ IsFailure(outcome)) => outcome.message.t = "str"

====
